---- MODULE Spec2Model ----
(***************************************************************************)
(* A model of XmlWriter (src/src/xml_writer.rs): the streaming XML writer  *)
(* with its open-element stack, namespace stack, open-tag flag and the     *)
(* three output modes.  Bytes are one-character strings; a string of the   *)
(* program is a sequence of bytes, and so is everything sent to the sink.  *)
(***************************************************************************)
EXTENDS Integers, Sequences, FiniteSets, TLC

(* ------------------------------ bounds -------------------------------- *)
\* Deepest nesting of open elements explored.
MaxDepth == 2
\* Calls after construction whose whole history (calls, sink content) is kept.
MaxTrace == 2
\* Largest number of successful sink writes before an injected sink failure.
MaxWrites == 6
\* Longest string given to the escaping paths.
MaxLen == 2
\* Most sink failures injected in one run.
MaxFails == 1

(* ------------------------------ inputs -------------------------------- *)
\* Element names given to begin_elem.
Names == {<<"a">>, <<"b">>}
\* Element names given to elem, empty_elem and elem_text.
LeafNames == {<<"e">>}
\* Text given to text, cdata, comment and elem_text.
Texts == {<<"x", "<">>}
\* Attribute name and value given to attr and attr_esc.
AttrNames == {<<"k">>}
AttrValues == {<<"v", "\"">>}
\* Namespace prefixes; Option<&str> is a sequence of at most one prefix.
Prefixes == {<<"s">>, <<"t">>}
None == <<>>
Some(p) == <<p>>
Namespaces == {None} \cup {Some(p) : p \in Prefixes}
\* The namespace map given to ns_decl (the one of the tests, shortened).
NsMaps == {<< [pre |-> None, uri |-> <<"u">>], [pre |-> Some(<<"s">>), uri |-> <<"w">>] >>}
\* Encoding given to dtd.
Encodings == {<<"U">>}
\* Strings that try the escaping: every string of at most MaxLen bytes over
\* the five escaped characters, the backslash and a plain letter.
EscAlphabet == {"\"", "'", "&", "<", ">", "\\", "x"}
EscStrings == UNION {[1 .. n -> EscAlphabet] : n \in 0 .. MaxLen}
\* The sink accepts every write (NoFail), or fails the write after `n` good ones.
NoFail == -1
Budgets == {NoFail} \cup (0 .. MaxWrites)

(* --------------------------- markup tokens ---------------------------- *)
LT == <<"<">>
GT == <<">">>
SLASH_GT == <<"/", ">">>
LT_SLASH == <<"<", "/">>
NL == <<"\n">>
INDENT == <<" ", " ">>
COLON == <<":">>
SPACE == <<" ">>
EQ_QUOTE == <<"=", "\"">>
QUOTE == <<"\"">>
COMMENT_OPEN == <<"<", "!", "-", "-", " ">>
COMMENT_CLOSE == <<" ", "-", "-", ">">>
CDATA_OPEN == <<"<", "!", "[", "C", "D", "A", "T", "A", "[">>
CDATA_CLOSE == <<"]", "]", ">">>
XMLNS == <<"x", "m", "l", "n", "s">>
DTD_OPEN == <<"<", "?", "x", "m", "l", " ", "v", "e", "r", "s", "i", "o", "n", "=", "\"", "1", ".", "0", "\"", " ", "e", "n", "c", "o", "d", "i", "n", "g", "=", "\"">>
DTD_CLOSE == <<"\"", " ", "?", ">", "\n">>
ENT_QUOT == <<"&", "q", "u", "o", "t", ";">>
ENT_APOS == <<"&", "a", "p", "o", "s", ";">>
ENT_AMP == <<"&", "a", "m", "p", ";">>
ENT_LT == <<"&", "l", "t", ";">>
ENT_GT == <<"&", "g", "t", ";">>
BACKSLASH2 == <<"\\", "\\">>

(* ------------------------------ state --------------------------------- *)
VARIABLES
  stack,        \* Vec<(&str, bool)>: [name, children] per open element, innermost last
  ns_stack,     \* Vec<Option<&str>>: the namespace at each open element's begin_elem
  opened,       \* a start tag is written and not yet terminated
  pretty,       \* indent opening elements
  very_pretty,  \* also: closing tags on their own line, childless elements self-close
  namespace,    \* the namespace of the elements written next
  children,     \* scratch flag read by close_elem
  newline,      \* very pretty: a newline precedes the next indentation
  panicked,     \* a panic! unwound the caller: the writer is used no more
  wrote,        \* the bytes the last call sent to the sink
  last,         \* the last call: operation, argument, result, state at the call
  track,        \* per open element: name and namespace setting at its begin_elem,
                \* child appended, how its start tag was terminated
  watching,     \* the terminators of the start tags are observed (SpecWatching)
  recording,    \* the history below is complete (at most MaxTrace calls were made)
  calls,        \* the calls made since construction, constructor first
  sink,         \* the whole content of the sink
  fails,        \* the sink failures so far
  balance       \* begin_elem calls less end_elem invocations (close makes one per frame)

vars == <<stack, ns_stack, opened, pretty, very_pretty, namespace, children,
          newline, panicked, wrote, last, track, watching, recording, calls, sink,
          fails, balance>>

\* The fields of the struct.
fields == <<stack, ns_stack, opened, pretty, very_pretty, namespace, children, newline>>

(* ------------------------- the writer's methods ----------------------- *)
\* A method runs on a record of the fields plus: out, the bytes it has written;
\* budget, the writes the sink still accepts; err, an io::Error is being returned
\* by `?`; panic, a panic! is unwinding; ends, where in `out` each end_elem began.
Halted(s) == s.err \/ s.panic

\* panic!: the method unwinds; and a method that returns normally in its place.
NoPanic(s) == s
Panic(s) == [s EXCEPT !.panic = TRUE]

\* write / write_slice: write_all on the sink, the error returned.  The sink
\* takes a write whole or fails it whole.
\* A write whose failure is recorded but does not end the call.
WriteNoAbort(s, bytes) ==
  IF s.panic THEN s
  ELSE IF s.budget = 0 THEN [s EXCEPT !.err = TRUE, !.budget = NoFail]
  ELSE [s EXCEPT !.out = @ \o bytes, !.budget = IF @ = NoFail THEN NoFail ELSE @ - 1]

Write(s, bytes) ==
  IF Halted(s) THEN s
  ELSE IF s.budget = 0 THEN [s EXCEPT !.err = TRUE]
  ELSE [s EXCEPT !.out = @ \o bytes,
                 !.budget = IF @ = NoFail THEN NoFail ELSE @ - 1]

\* `for _ in 0..n { write(bytes)? }`, and the same loop running once more.
RECURSIVE WriteTimesInclusive(_, _, _)
WriteTimesInclusive(s, n, bytes) ==
  IF n < 0 THEN s ELSE WriteTimesInclusive(Write(s, bytes), n - 1, bytes)

RECURSIVE WriteTimes(_, _, _)
WriteTimes(s, n, bytes) ==
  IF n = 0 THEN s ELSE WriteTimes(Write(s, bytes), n - 1, bytes)

\* Pretty mode indents below the root only.
pretty_indents_at_root(s) == s.pretty
pretty_indents_any_mode(s) == s.stack # <<>>
pretty_indents(s) == s.pretty /\ s.stack # <<>>

indent(s) ==
  IF Halted(s) THEN s
  ELSE LET n == Len(s.stack) IN
    IF s.very_pretty
      THEN LET s1 == IF s.newline THEN Write(s, NL) ELSE [s EXCEPT !.newline = TRUE]
           IN WriteTimes(s1, n, INDENT)
    ELSE IF pretty_indents(s)
      THEN WriteTimes(Write(s, NL), n, INDENT)
    ELSE s

ns_prefix(s, ns) ==
  IF ns # None THEN Write(Write(s, ns[1]), COLON) ELSE s

\* close_elem that never self-closes.
close_elem_gt(s) ==
  IF Halted(s) \/ ~s.opened THEN s
  ELSE LET s1 == Write(s, GT)
       IN IF Halted(s1) THEN s1 ELSE [s1 EXCEPT !.opened = FALSE]

\* close_elem that leaves the Open-Tag Flag set.
close_elem_stays_opened(s) ==
  IF Halted(s) \/ ~s.opened THEN s
  ELSE Write(s, IF s.very_pretty /\ ~s.children THEN SLASH_GT ELSE GT)

close_elem(s) ==
  IF Halted(s) \/ ~s.opened THEN s
  ELSE LET s1 == Write(s, IF s.very_pretty /\ ~s.children THEN SLASH_GT ELSE GT)
       IN IF Halted(s1) THEN s1 ELSE [s1 EXCEPT !.opened = FALSE]

\* "change previous elem to having children": pop, set the flag, push back;
\* and the same without the push back.
mark_previous_drop(s) ==
  IF Halted(s) \/ s.stack = <<>> THEN s
  ELSE [s EXCEPT !.stack = SubSeq(@, 1, Len(@) - 1)]

mark_previous(s) ==
  IF Halted(s) \/ s.stack = <<>> THEN s
  ELSE [s EXCEPT !.stack[Len(s.stack)].children = TRUE]

\* A field assignment between two writes: skipped once `?` has returned.
SetChildren(s, b) == IF Halted(s) THEN s ELSE [s EXCEPT !.children = b]

\* The match of escape without its arm for the apostrophe.
EscapeCharNoApos(c, ident) ==
  CASE c = "\"" -> ENT_QUOT
    [] c = "&" -> ENT_AMP
    [] c = "<" -> ENT_LT
    [] c = ">" -> ENT_GT
    [] c = "\\" /\ ident -> BACKSLASH2
    [] OTHER -> <<c>>

EscapeChar(c, ident) ==
  CASE c = "\"" -> ENT_QUOT
    [] c = "'" -> ENT_APOS
    [] c = "&" -> ENT_AMP
    [] c = "<" -> ENT_LT
    [] c = ">" -> ENT_GT
    [] c = "\\" /\ ident -> BACKSLASH2
    [] OTHER -> <<c>>

RECURSIVE escape(_, _, _)
escape(s, txt, ident) ==
  IF txt = <<>> THEN s
  ELSE escape(Write(s, EscapeChar(Head(txt), ident)), Tail(txt), ident)

dtd(s, encoding) ==
  Write(Write(Write(s, DTD_OPEN), encoding), DTD_CLOSE)

\* attr without the check of `opened`.
attr_unchecked(s, name, value) ==
  Write(Write(Write(Write(Write(s, SPACE), name), EQ_QUOTE), value), QUOTE)

attr(s, name, value) ==
  IF Halted(s) THEN s
  ELSE IF ~s.opened THEN Panic(s)
  ELSE Write(Write(Write(Write(Write(s, SPACE), name), EQ_QUOTE), value), QUOTE)

attr_esc(s, name, value) ==
  IF Halted(s) THEN s
  ELSE IF ~s.opened THEN Panic(s)
  ELSE Write(escape(Write(escape(Write(s, SPACE), name, TRUE), EQ_QUOTE), value, FALSE), QUOTE)

RECURSIVE ns_decl_items(_, _)
ns_decl_items(s, ns_map) ==
  IF ns_map = <<>> THEN s
  ELSE LET item == Head(ns_map)
           name == IF item.pre # None THEN XMLNS \o COLON \o item.pre[1] ELSE XMLNS
       IN ns_decl_items(attr(s, name, item.uri), Tail(ns_map))

ns_decl(s, ns_map) ==
  IF Halted(s) THEN s
  ELSE IF ~s.opened THEN Panic(s)
  ELSE ns_decl_items(s, ns_map)

elem(s, name) ==
  LET s1 == Write(indent(close_elem(s)), LT)
      s2 == ns_prefix(s1, s1.namespace)
  IN Write(Write(s2, name), SLASH_GT)

elem_text(s, name, txt) ==
  LET s1 == Write(indent(close_elem(s)), LT)
      s2 == Write(Write(ns_prefix(s1, s1.namespace), name), GT)
      s3 == escape(s2, txt, FALSE)
  IN Write(Write(Write(s3, LT_SLASH), name), GT)

\* begin_elem pushing the namespace frame only after `<` was written.
begin_elem_ns_late(s, name) ==
  LET s1 == indent(mark_previous(close_elem([s EXCEPT !.children = TRUE])))
      s2 == IF Halted(s1) THEN s1
            ELSE [s1 EXCEPT !.stack = Append(@, [name |-> name, children |-> FALSE])]
      s3 == Write(s2, LT)
      s4 == IF Halted(s3) THEN s3
            ELSE [s3 EXCEPT !.ns_stack = Append(@, s3.namespace),
                            !.opened = TRUE, !.children = FALSE]
  IN Write(ns_prefix(s4, s4.namespace), name)

begin_elem(s, name) ==
  LET s1 == indent(mark_previous(close_elem([s EXCEPT !.children = TRUE])))
      s2 == IF Halted(s1) THEN s1
            ELSE [s1 EXCEPT !.stack = Append(@, [name |-> name, children |-> FALSE]),
                            !.ns_stack = Append(@, s1.namespace)]
      s3 == Write(s2, LT)
      s4 == IF Halted(s3) THEN s3 ELSE [s3 EXCEPT !.opened = TRUE, !.children = FALSE]
  IN Write(ns_prefix(s4, s4.namespace), name)

\* The namespace end_elem writes in the closing tag: the one popped from
\* ns_stack; and the current setting in its place.
closing_ns_current(s) == s.namespace
closing_ns(s) == s.ns_stack[Len(s.ns_stack)]

\* The frame end_elem pops: the last one pushed; and the first one in its place.
popped_first(s) == s.stack[1]
popped(s) == s.stack[Len(s.stack)]

end_elem(s) ==
  IF Halted(s) THEN s
  ELSE
  LET s0 == [s EXCEPT !.ends = Append(@, Len(s.out))]
      s1 == close_elem(s0)
  IN IF Halted(s1) THEN s1
     ELSE IF s1.ns_stack = <<>> THEN Panic(s1)
     ELSE LET ns == closing_ns(s1)
              s2 == [s1 EXCEPT !.ns_stack = SubSeq(@, 1, Len(@) - 1)]
          IN IF s2.stack = <<>> THEN Panic(s2)
             ELSE LET top == popped(s2)
                      s3 == [s2 EXCEPT !.stack = SubSeq(@, 1, Len(@) - 1)]
                  IN IF s3.very_pretty /\ ~top.children THEN s3
                     ELSE LET s4 == IF s3.very_pretty THEN indent(s3) ELSE s3
                          IN Write(Write(ns_prefix(Write(s4, LT_SLASH), ns), top.name), GT)

empty_elem(s, name) ==
  LET s1 == SetChildren(mark_previous(close_elem([s EXCEPT !.children = TRUE])), FALSE)
      s2 == Write(indent(s1), LT)
  IN Write(Write(ns_prefix(s2, s2.namespace), name), SLASH_GT)

text(s, t) ==
  LET s1 == SetChildren(mark_previous(close_elem([s EXCEPT !.children = TRUE])), FALSE)
      s2 == IF ~Halted(s1) /\ s1.very_pretty THEN indent(s1) ELSE s1
  IN escape(s2, t, FALSE)

cdata(s, t) ==
  LET s1 == mark_previous(close_elem([s EXCEPT !.children = TRUE]))
      s2 == IF ~Halted(s1) /\ s1.very_pretty THEN indent(s1) ELSE s1
      s3 == SetChildren(s2, FALSE)
  IN Write(Write(Write(s3, CDATA_OPEN), t), CDATA_CLOSE)

comment(s, t) ==
  LET s1 == indent(mark_previous(close_elem([s EXCEPT !.children = TRUE])))
      s2 == SetChildren(s1, FALSE)
  IN Write(escape(Write(s2, COMMENT_OPEN), t, FALSE), COMMENT_CLOSE)

RECURSIVE end_elem_times(_, _)
end_elem_times(s, n) ==
  IF n = 0 THEN s ELSE end_elem_times(end_elem(s), n - 1)

\* close, and a close that leaves the outermost element open.
close_but_one(s) == end_elem_times(s, IF s.stack = <<>> THEN 0 ELSE Len(s.stack) - 1)
close(s) == end_elem_times(s, Len(s.stack))

(* ------------------------------ calls --------------------------------- *)
\* The caller may make a call: no panic has unwound it, and the sink fails a
\* write during the call only if fewer than MaxFails failures were injected.
MayCall(b) == ~panicked /\ (b = NoFail \/ fails < MaxFails)

\* The writer as a call finds it, with the sink accepting `budget` more writes.
Start(budget) ==
  [stack |-> stack, ns_stack |-> ns_stack, opened |-> opened, pretty |-> pretty,
   very_pretty |-> very_pretty, namespace |-> namespace, children |-> children,
   newline |-> newline, out |-> <<>>, budget |-> budget, err |-> FALSE,
   panic |-> FALSE, ends |-> <<>>]

\* The operations that append a child under the element on top of the stack.
ChildOps == {"begin_elem", "elem", "empty_elem", "elem_text", "text", "cdata", "comment"}

Result(s) == IF s.panic THEN "panic" ELSE IF s.err THEN "err" ELSE "ok"

\* The operations that run close_elem before any other write, and how the bytes
\* of such a call terminated the pending start tag: `/>` ("sc") or `>` ("gt").
TerminatingOps == ChildOps \cup {"end_elem", "close"}
Terminator(w) ==
  IF w = <<>> THEN "none" ELSE IF w[1] = "/" THEN "sc" ELSE IF w[1] = ">" THEN "gt" ELSE "none"

\* The observation kept per open element, beside the writer's own stacks: the
\* name and the namespace setting its begin_elem was called with, whether a
\* later call appended a child under it, and (if watching) how its start tag
\* was terminated.
Tracked(op, arg, s) ==
  LET marked == IF op \in ChildOps /\ Result(s) = "ok" /\ track # <<>>
                  THEN [track EXCEPT ![Len(track)].kids = TRUE]
                  ELSE track
      n == Len(s.stack)
      ended == IF watching /\ opened /\ op \in TerminatingOps /\ s.out # <<>> /\ marked # <<>>
                 THEN [marked EXCEPT ![Len(track)].term = Terminator(s.out)]
                 ELSE marked
  IN IF n > Len(track)
       THEN Append(ended, [name |-> arg, ns |-> namespace, kids |-> FALSE, term |-> "none"])
     ELSE IF n < Len(track) THEN SubSeq(ended, 1, n)
     ELSE ended

\* The history of the first MaxTrace calls; forgotten once a call more is made.
Remember(op, arg, s) ==
  IF recording /\ Len(calls) <= MaxTrace
    THEN /\ recording' = TRUE
         /\ calls' = Append(calls, [op |-> op, arg |-> arg])
         /\ sink' = sink \o s.out
    ELSE /\ recording' = FALSE
         /\ calls' = <<>>
         /\ sink' = <<>>

\* The call returns (or panics): the fields and the observations after it.
\* A sink that was to fail a write the call never made is the sink that
\* accepts every write.
Commit2(op, arg, arg2, returned) ==
  \E s \in {returned} :
    /\ s.budget # NoFail => s.err
    /\ stack' = s.stack
    /\ ns_stack' = s.ns_stack
    /\ opened' = s.opened
    /\ pretty' = s.pretty
    /\ very_pretty' = s.very_pretty
    /\ namespace' = s.namespace
    /\ children' = s.children
    /\ newline' = s.newline
    /\ panicked' = s.panic
    /\ wrote' = s.out
    /\ last' = [op |-> op, arg |-> arg, arg2 |-> arg2, res |-> Result(s),
                depth |-> Len(stack), opened |-> opened, ends |-> s.ends]
    /\ track' = Tracked(op, arg, s)
    /\ watching' = watching
    /\ fails' = IF s.err THEN fails + 1 ELSE fails
    /\ balance' = balance + (IF op = "begin_elem" THEN 1 ELSE 0) - Len(s.ends)
    /\ Remember(op, arg, s)

\* A call of one argument, or of none.
Commit(op, arg, returned) == Commit2(op, arg, <<>>, returned)

NoCall == [op |-> "new", arg |-> <<>>, arg2 |-> <<>>, res |-> "ok", depth |-> 0,
           opened |-> FALSE, ends |-> <<>>]

\* compact_mode / pretty_mode / very_pretty_mode
New(ctor, p, vp) ==
  /\ stack = <<>>
  /\ ns_stack = <<>>
  /\ opened = FALSE
  /\ pretty = p
  /\ very_pretty = vp
  /\ namespace = None
  /\ children = FALSE
  /\ newline = FALSE
  /\ panicked = FALSE
  /\ wrote = <<>>
  /\ last = NoCall
  /\ track = <<>>
  /\ recording = TRUE
  /\ calls = <<[op |-> ctor, arg |-> <<>>]>>
  /\ sink = <<>>
  /\ fails = 0
  /\ balance = 0

Constructors ==
  \/ New("compact_mode", FALSE, FALSE)
  \/ New("pretty_mode", TRUE, FALSE)
  \/ New("very_pretty_mode", TRUE, TRUE)

Init == Constructors /\ watching = FALSE
\* The same writer, the terminators of its start tags observed.
InitWatching == Constructors /\ watching = TRUE

SetMode(op, p, vp) ==
  /\ ~panicked
  /\ Commit(op, <<>>, [Start(NoFail) EXCEPT !.pretty = p, !.very_pretty = vp])

SetCompactMode == SetMode("set_compact_mode", FALSE, FALSE)
SetPrettyMode == SetMode("set_pretty_mode", TRUE, FALSE)
SetVeryPrettyMode == SetMode("set_very_pretty_mode", TRUE, TRUE)

\* `namespace` is a public field: the caller assigns it.
SetNamespace(ns) ==
  /\ ~panicked
  /\ Commit("namespace", ns, [Start(NoFail) EXCEPT !.namespace = ns])

Dtd(b, encoding) ==
  /\ MayCall(b)
  /\ Commit("dtd", encoding, dtd(Start(b), encoding))

BeginElem(b, name) ==
  /\ MayCall(b)
  /\ Len(stack) < MaxDepth
  /\ Commit("begin_elem", name, begin_elem(Start(b), name))

EndElem(b) ==
  /\ MayCall(b)
  /\ Commit("end_elem", <<>>, end_elem(Start(b)))

Elem(b, name) ==
  /\ MayCall(b)
  /\ Commit("elem", name, elem(Start(b), name))

EmptyElem(b, name) ==
  /\ MayCall(b)
  /\ Commit("empty_elem", name, empty_elem(Start(b), name))

ElemText(b, name, txt) ==
  /\ MayCall(b)
  /\ Commit2("elem_text", name, txt, elem_text(Start(b), name, txt))

Text(b, txt) ==
  /\ MayCall(b)
  /\ Commit("text", txt, text(Start(b), txt))

Cdata(b, txt) ==
  /\ MayCall(b)
  /\ Commit("cdata", txt, cdata(Start(b), txt))

Comment(b, txt) ==
  /\ MayCall(b)
  /\ Commit("comment", txt, comment(Start(b), txt))

Attr(b, name, value) ==
  /\ MayCall(b)
  /\ Commit2("attr", name, value, attr(Start(b), name, value))

AttrEsc(b, name, value) ==
  /\ MayCall(b)
  /\ Commit2("attr_esc", name, value, attr_esc(Start(b), name, value))

NsDecl(b, ns_map) ==
  /\ MayCall(b)
  /\ Commit("ns_decl", ns_map, ns_decl(Start(b), ns_map))

Close(b) ==
  /\ MayCall(b)
  /\ Commit("close", <<>>, close(Start(b)))

\* Every call but a mode setter the caller can make, the sink accepting `b` writes during it
\* for some b of B, the namespace setting assigned from NS.
Ops(B, NS) ==
  \/ \E ns \in NS : SetNamespace(ns)
  \/ \E b \in B, e \in Encodings : Dtd(b, e)
  \/ \E b \in B, n \in Names : BeginElem(b, n)
  \/ \E b \in B : EndElem(b)
  \/ \E b \in B, n \in LeafNames : Elem(b, n)
  \/ \E b \in B, n \in LeafNames : EmptyElem(b, n)
  \/ \E b \in B, n \in LeafNames, t \in Texts : ElemText(b, n, t)
  \/ \E b \in B, t \in Texts : Text(b, t)
  \/ \E b \in B, t \in Texts : Cdata(b, t)
  \/ \E b \in B, t \in Texts : Comment(b, t)
  \/ \E b \in B, n \in AttrNames, v \in AttrValues : Attr(b, n, v)
  \/ \E b \in B, n \in AttrNames, v \in AttrValues : AttrEsc(b, n, v)
  \/ \E b \in B, m \in NsMaps : NsDecl(b, m)
  \/ \E b \in B : Close(b)

\* The same, and the mode setters.
Call(B, NS) ==
  \/ SetCompactMode
  \/ SetPrettyMode
  \/ SetVeryPrettyMode
  \/ Ops(B, NS)

\* The sink never fails.
Next == Call({NoFail}, Namespaces)
Spec == Init /\ [][Next]_vars

\* The sink may fail any write of any call, MaxFails times in all; the
\* namespace setting is None or one prefix.
NextIO == Call(Budgets, {None, Some(<<"s">>)})
SpecIO == Init /\ [][NextIO]_vars

\* Spec, the terminators of the start tags observed in `track`.
SpecWatching == InitWatching /\ [][Next]_vars

\* The writer stays in the mode it was constructed in; the sink never fails.
NextSteady == Ops({NoFail}, Namespaces)
SpecSteady == Init /\ [][NextSteady]_vars

\* The escaping paths, and the raw ones beside them, on every string of
\* EscStrings: one call on a fresh writer, or one right after a begin_elem.
EscFresh == last.op = "new"
EscFirst == last.op \in {"new", "namespace"}
EscSecond ==
  /\ last.op \in {"new", "namespace", "begin_elem"}
  /\ stack # <<>> => stack[1].name \in Names
AttrPairs == (EscStrings \X AttrValues) \cup (AttrNames \X EscStrings)
NextEscape ==
  \/ \E ns \in {Some(<<"s">>)} : EscFresh /\ SetNamespace(ns)
  \/ \E n \in Names \cup (EscStrings \ {<<>>}) : EscFirst /\ BeginElem(NoFail, n)
  \/ \E n \in EscStrings \ {<<>>} : EscSecond /\ Elem(NoFail, n)
  \/ \E n \in EscStrings \ {<<>>} : EscSecond /\ EmptyElem(NoFail, n)
  \/ \E n \in LeafNames, t \in EscStrings : EscSecond /\ ElemText(NoFail, n, t)
  \/ \E t \in EscStrings : EscSecond /\ Text(NoFail, t)
  \/ \E t \in EscStrings : EscSecond /\ Cdata(NoFail, t)
  \/ \E t \in EscStrings : EscSecond /\ Comment(NoFail, t)
  \/ \E nv \in AttrPairs : EscSecond /\ opened /\ Attr(NoFail, nv[1], nv[2])
  \/ \E nv \in AttrPairs : EscSecond /\ opened /\ AttrEsc(NoFail, nv[1], nv[2])
SpecEscape == Init /\ [][NextEscape]_vars

(* ------------------------------ claims -------------------------------- *)
StartsWith(w, p) == Len(w) >= Len(p) /\ SubSeq(w, 1, Len(p)) = p
EndsWith(w, p) == Len(w) >= Len(p) /\ SubSeq(w, Len(w) - Len(p) + 1, Len(w)) = p
Contains(w, p) == \E i \in 1 .. Len(w) : StartsWith(SubSeq(w, i, Len(w)), p)
RECURSIVE Repeat(_, _)
Repeat(bytes, n) == IF n = 0 THEN <<>> ELSE bytes \o Repeat(bytes, n - 1)
\* The namespace prefix as it appears in a tag.
Prefix(ns) == IF ns = None THEN <<>> ELSE ns[1] \o COLON
\* The position of the first `<` in w (0 if there is none).
FirstLt(w) ==
  IF \E i \in 1 .. Len(w) : w[i] = "<"
    THEN CHOOSE i \in 1 .. Len(w) : w[i] = "<" /\ \A j \in 1 .. i - 1 : w[j] # "<"
    ELSE 0
\* The bytes the i-th end_elem of a call wrote, given all the call wrote.
EndSegment(w, ends, i) ==
  SubSeq(w, ends[i] + 1, IF i < Len(ends) THEN ends[i + 1] ELSE Len(w))
VeryPrettyNew == [op |-> "very_pretty_mode", arg |-> <<>>]
PrettyNew == [op |-> "pretty_mode", arg |-> <<>>]

\* C1: with no sink failure and no panic, at every point of a call sequence
\* both stacks are as long as the number of begin_elem calls less the number
\* of end_elem invocations, so both are empty once every begin_elem is matched.
TheoremC1 ==
  (~panicked /\ fails = 0) =>
    /\ Len(stack) = balance
    /\ Len(ns_stack) = balance
    /\ (balance = 0 => stack = <<>> /\ ns_stack = <<>>)

\* A nested element was begun and both elements were ended again.
WitnessC1 ==
  /\ last.op = "end_elem" /\ last.res = "ok" /\ last.depth = 1
  /\ balance = 0 /\ stack = <<>> /\ ns_stack = <<>>
  /\ recording = FALSE

\* C2: in FullyPretty mode a child operation that finds the start tag of the
\* top element pending terminates it with `>`, and the end_elem of an element
\* under which a child was appended writes the closing tag `</name>`.
ClaimC2 ==
  [][ /\ (last'.op \in ChildOps /\ last'.res = "ok" /\ very_pretty /\ opened)
           => StartsWith(wrote', GT)
      /\ (last'.op = "end_elem" /\ last'.res = "ok" /\ very_pretty
            /\ stack # <<>> /\ track # <<>> /\ track[Len(track)].kids)
           => EndsWith(wrote', LT_SLASH \o Prefix(ns_stack[Len(ns_stack)])
                                 \o stack[Len(stack)].name \o GT)
    ]_vars

\* C3: in FullyPretty mode the end_elem of an element under which no child was
\* appended writes `/>` and nothing else; begin_elem("a"), end_elem() on a
\* fresh writer leave exactly `<a/>` in the sink.
TheoremC3 ==
  [][ /\ (last'.op = "end_elem" /\ last'.res = "ok" /\ very_pretty
            /\ track # <<>> /\ ~track[Len(track)].kids)
           => wrote' = SLASH_GT
      /\ (recording' /\ calls' = <<VeryPrettyNew, [op |-> "begin_elem", arg |-> <<"a">>],
                                   [op |-> "end_elem", arg |-> <<>>]>>)
           => sink' = <<"<", "a", "/", ">">>
    ]_vars

\* begin_elem("a"), end_elem() were called on a fresh FullyPretty writer.
WitnessC3 ==
  /\ recording
  /\ calls = <<VeryPrettyNew, [op |-> "begin_elem", arg |-> <<"a">>],
               [op |-> "end_elem", arg |-> <<>>]>>
  /\ last.op = "end_elem" /\ last.res = "ok" /\ very_pretty
  /\ wrote = SLASH_GT

\* C4: every closing tag written by end_elem, called directly or by close,
\* carries the prefix that was the namespace setting when the element's
\* begin_elem was called, and its name.
TheoremC4 ==
  [][ (last'.op \in {"end_elem", "close"} /\ last'.res = "ok"
         /\ Len(track) = Len(stack))
        => \A i \in 1 .. Len(last'.ends) :
             LET j == Len(stack) - i + 1
                 seg == EndSegment(wrote', last'.ends, i)
             IN Contains(seg, LT_SLASH)
                  => EndsWith(seg, LT_SLASH \o Prefix(track[j].ns) \o stack[j].name \o GT)
    ]_vars

\* An element begun under prefix s is closed as `</s:a>` while the setting is t.
WitnessC4 ==
  /\ last.op = "end_elem" /\ last.res = "ok"
  /\ namespace = Some(<<"t">>)
  /\ EndsWith(wrote, <<"<", "/", "s", ":", "a", ">">>)

\* C5: when a sink write fails during a call, the Open-Element Stack and the
\* Namespace Stack, has_children flags included, are as they were before the call.
ClaimC5 ==
  [][ last'.res = "err" => (stack' = stack /\ ns_stack' = ns_stack) ]_vars

\* C6: close() on n open elements (no sink failure) invokes end_elem exactly n
\* times and leaves both stacks empty and the Open-Tag Flag false; on no open
\* element it writes nothing and changes no field.
TheoremC6 ==
  [][ (last'.op = "close" /\ last'.res = "ok" /\ fails = 0) =>
        /\ Len(last'.ends) = Len(stack)
        /\ stack' = <<>> /\ ns_stack' = <<>> /\ ~opened'
        /\ (stack = <<>> => wrote' = <<>> /\ UNCHANGED fields)
    ]_vars

\* close() has closed two open elements.
WitnessC6 ==
  /\ last.op = "close" /\ last.res = "ok" /\ last.depth = 2
  /\ Len(last.ends) = 2 /\ stack = <<>> /\ ns_stack = <<>> /\ ~opened

\* C7: after a child operation called while the stack is non-empty, the frame
\* that was on top of the stack at the call has has_children = true.
ClaimC7 ==
  [][ (last'.op \in ChildOps /\ last'.res = "ok" /\ stack # <<>>)
        => stack'[Len(stack)].children ]_vars

\* The operations that write an element start tag.
ElementOps == {"begin_elem", "elem", "empty_elem", "elem_text"}

\* C8: in Pretty mode the `<` of a start tag written while n >= 1 elements are
\* open comes right after a newline and 2n spaces; at depth 0 the call writes
\* nothing before the `<`.
TheoremC8 ==
  (last.op \in ElementOps /\ last.res = "ok" /\ pretty /\ ~very_pretty) =>
    LET i == FirstLt(wrote)
        n == last.depth
    IN /\ i > 0
       /\ IF n = 0 THEN i = 1
          ELSE /\ i > 2 * n + 1
               /\ SubSeq(wrote, i - 2 * n - 1, i - 1) = NL \o Repeat(INDENT, n)
               /\ (last.opened => SubSeq(wrote, 1, i - 2 * n - 2) = GT)
               /\ (~last.opened => i = 2 * n + 2)

\* A start tag was written in Pretty mode under two open elements.
WitnessC8 ==
  /\ last.op \in ElementOps /\ last.res = "ok" /\ pretty /\ ~very_pretty
  /\ last.depth = 2
  /\ StartsWith(wrote, <<">", "\n", " ", " ", " ", " ", "<">>)

\* The bytes of a comment or text argument after escaping.
RECURSIVE Escaped(_)
Escaped(txt) ==
  IF txt = <<>> THEN <<>> ELSE EscapeChar(Head(txt), FALSE) \o Escaped(Tail(txt))
CommentBytes(txt) == COMMENT_OPEN \o Escaped(txt) \o COMMENT_CLOSE
TwoComments(ctor) ==
  /\ recording
  /\ Len(calls) = 3
  /\ calls[1] = ctor
  /\ calls[2].op = "comment"
  /\ calls[3].op = "comment"

\* C9 as stated: in Pretty mode the first root-level comment has no leading
\* newline and a second root-level comment after it is preceded by a newline.
ClaimC9 ==
  TwoComments(PrettyNew) =>
    sink = CommentBytes(calls[2].arg) \o NL \o CommentBytes(calls[3].arg)

\* C9 amended: in Pretty mode a comment at the document root is written with
\* no leading newline, the first one and a second one after it alike.
TheoremC9 ==
  /\ (last.op = "comment" /\ last.res = "ok" /\ pretty /\ ~very_pretty /\ last.depth = 0)
       => wrote = CommentBytes(last.arg)
  /\ TwoComments(PrettyNew) =>
       sink = CommentBytes(calls[2].arg) \o CommentBytes(calls[3].arg)

\* Two comments were written at the root of a fresh Pretty writer.
WitnessC9 ==
  /\ TwoComments(PrettyNew)
  /\ last.op = "comment" /\ last.res = "ok" /\ last.depth = 0
  /\ sink = <<"<", "!", "-", "-", " ", "x", "&", "l", "t", ";", " ", "-", "-", ">",
              "<", "!", "-", "-", " ", "x", "&", "l", "t", ";", " ", "-", "-", ">">>

\* The operations that write markup.
StructuralOps == ChildOps \cup {"attr", "attr_esc", "ns_decl", "end_elem", "close"}

\* C10: in Compact mode no structural operation writes a newline or an
\* indentation unit (two spaces), whatever the depth.
TheoremC10 ==
  (last.op \in StructuralOps /\ ~pretty /\ ~very_pretty) =>
    /\ ~Contains(wrote, NL)
    /\ ~Contains(wrote, INDENT)

\* An element was begun under an open element in Compact mode.
WitnessC10 ==
  /\ last.op = "begin_elem" /\ last.res = "ok" /\ ~pretty /\ ~very_pretty
  /\ last.depth = 1 /\ last.opened
  /\ wrote = <<">", "<", "b">>

\* The operations that write an attribute into the pending start tag.
AttrOps == {"attr", "attr_esc", "ns_decl"}

\* C11: attr, attr_esc and ns_decl return normally only if called while the
\* Open-Tag Flag is true; otherwise they panic, write no byte and change no
\* field.  The flag is false on a fresh writer and after every child operation
\* but begin_elem, after end_elem and after close.
TheoremC11 ==
  [][ /\ (last'.op \in AttrOps /\ opened) => (last'.res = "ok" /\ wrote' # <<>>)
      /\ (last'.op \in AttrOps /\ ~opened)
           => (last'.res = "panic" /\ panicked' /\ wrote' = <<>> /\ UNCHANGED fields)
      /\ ((last'.op \in (ChildOps \ {"begin_elem"}) \cup {"end_elem", "close"}
             /\ last'.res = "ok") => ~opened')
      /\ (last'.op = "begin_elem" /\ last'.res = "ok") => opened'
    ]_vars

\* attr was called after a child operation had closed the start tag, and panicked.
WitnessC11 ==
  /\ last.op = "attr" /\ last.res = "panic" /\ panicked
  /\ ~last.opened /\ last.depth = 1 /\ wrote = <<>>

\* C12: end_elem called on an empty Open-Element Stack panics and writes no
\* byte before it does.
TheoremC12 ==
  [][ (last'.op = "end_elem" /\ stack = <<>>)
        => (last'.res = "panic" /\ panicked' /\ wrote' = <<>>) ]_vars

\* end_elem panicked after a begin_elem, end_elem pair had emptied the stack.
WitnessC12 ==
  /\ last.op = "end_elem" /\ last.res = "panic" /\ panicked
  /\ last.depth = 0 /\ wrote = <<>> /\ balance = -1
  /\ recording = FALSE

\* The named entity of each of the five characters; any other byte as it is.
Entity(c) ==
  CASE c = "\"" -> <<"&", "q", "u", "o", "t", ";">>
    [] c = "'" -> <<"&", "a", "p", "o", "s", ";">>
    [] c = "&" -> <<"&", "a", "m", "p", ";">>
    [] c = "<" -> <<"&", "l", "t", ";">>
    [] c = ">" -> <<"&", "g", "t", ";">>
    [] OTHER -> <<c>>
RECURSIVE Entities(_)
Entities(txt) == IF txt = <<>> THEN <<>> ELSE Entity(Head(txt)) \o Entities(Tail(txt))
\* The same, a backslash doubled.
RECURSIVE EntitiesIdent(_)
EntitiesIdent(txt) ==
  IF txt = <<>> THEN <<>>
  ELSE (IF Head(txt) = "\\" THEN <<"\\", "\\">> ELSE Entity(Head(txt)))
         \o EntitiesIdent(Tail(txt))

\* What the escaped paths but the attr_esc name, and the raw paths, write.
EscapedPaths ==
  /\ (last.op = "text") =>
       /\ EndsWith(wrote, Entities(last.arg))
       /\ (~pretty /\ ~last.opened) => wrote = Entities(last.arg)
  /\ (last.op = "elem_text") =>
       EndsWith(wrote, last.arg \o GT \o Entities(last.arg2) \o LT_SLASH \o last.arg \o GT)
  /\ (last.op = "comment") =>
       EndsWith(wrote, COMMENT_OPEN \o Entities(last.arg) \o COMMENT_CLOSE)
  /\ (last.op = "attr_esc" /\ last.res = "ok") =>
       \E name \in {EntitiesIdent(last.arg), Entities(last.arg)} :
         wrote = SPACE \o name \o EQ_QUOTE \o Entities(last.arg2) \o QUOTE
RawPaths ==
  /\ (last.op = "attr" /\ last.res = "ok") =>
       wrote = SPACE \o last.arg \o EQ_QUOTE \o last.arg2 \o QUOTE
  /\ (last.op = "cdata") =>
       EndsWith(wrote, CDATA_OPEN \o last.arg \o CDATA_CLOSE)
  /\ (last.op = "begin_elem") => EndsWith(wrote, LT \o Prefix(namespace) \o last.arg)
  /\ (last.op \in {"elem", "empty_elem"}) =>
       EndsWith(wrote, LT \o Prefix(namespace) \o last.arg \o SLASH_GT)

\* C13 as stated: every escaped path, the attr_esc name among them, writes the
\* entity of each of the five characters and every other byte unchanged; the
\* raw paths write their input byte for byte.
ClaimC13 ==
  /\ EscapedPaths
  /\ RawPaths
  /\ (last.op = "attr_esc" /\ last.res = "ok") =>
       wrote = SPACE \o Entities(last.arg) \o EQ_QUOTE \o Entities(last.arg2) \o QUOTE

\* C13 amended: as stated, except that in the name given to attr_esc a
\* backslash is written as two backslashes.
TheoremC13 ==
  /\ EscapedPaths
  /\ RawPaths
  /\ (last.op = "attr_esc" /\ last.res = "ok") =>
       wrote = SPACE \o EntitiesIdent(last.arg) \o EQ_QUOTE \o Entities(last.arg2) \o QUOTE

\* attr_esc was given a name of a backslash and a `<`.
WitnessC13 ==
  /\ last.op = "attr_esc" /\ last.res = "ok"
  /\ last.arg = <<"\\", "<">>
  /\ wrote = <<" ", "\\", "\\", "&", "l", "t", ";", "=", "\"", "v", "&", "q", "u", "o", "t", ";", "\"">>

\* C14: the Open-Element Stack and the Namespace Stack are equally long in
\* every state, the states left by a call that a sink failure aborted included.
TheoremC14 == Len(stack) = Len(ns_stack)

\* begin_elem failed at its `<`, after it pushed a frame on each stack.
WitnessC14 ==
  /\ last.op = "begin_elem" /\ last.res = "err" /\ wrote = <<>>
  /\ Len(stack) = last.depth + 1
  /\ Len(ns_stack) = Len(stack)

\* How many times p occurs in w.
Occurrences(w, p) == Cardinality({i \in 1 .. Len(w) : StartsWith(SubSeq(w, i, Len(w)), p)})
\* The closing tag of a frame begun as `track` recorded it.
ClosingTag(i) == LT_SLASH \o Prefix(track[i].ns) \o track[i].name \o GT

\* C15: with no sink failure, whatever the mode switches, every element that
\* end_elem or close() ends was either self-closed with `/>` and gets no
\* closing tag, or was terminated with `>` and gets its closing tag exactly
\* once; close() leaves no element open.
ClaimC15 ==
  [][ (last'.op \in {"end_elem", "close"} /\ last'.res = "ok") =>
        /\ last'.op = "close" => stack' = <<>>
        /\ \A i \in 1 .. Len(last'.ends) :
             LET j == Len(track) - i + 1
                 seg == EndSegment(wrote', last'.ends, i)
                 term == IF track[j].term = "none" THEN Terminator(seg) ELSE track[j].term
             IN \/ term = "sc" /\ Occurrences(seg, LT_SLASH) = 0
                \/ term = "gt" /\ Occurrences(seg, ClosingTag(j)) = 1
                               /\ Occurrences(seg, LT_SLASH) = 1
    ]_vars

\* The bytes hold a `</`.
WritesClosingTag(w) == \E i \in 1 .. Len(w) - 1 : w[i] = "<" /\ w[i + 1] = "/"

\* C16: the i-th end_elem of a call ends the i-th most recently begun element
\* that is still open: it pops that frame, and a closing tag it writes is the
\* one of that element.
TheoremC16 ==
  [][ (last'.op \in {"end_elem", "close"} /\ last'.res = "ok") =>
        /\ Len(last'.ends) <= Len(track)
        /\ stack' = SubSeq(stack, 1, Len(stack) - Len(last'.ends))
        /\ track' = SubSeq(track, 1, Len(track) - Len(last'.ends))
        /\ \A i \in 1 .. Len(last'.ends) :
             LET j == Len(track) - i + 1
                 seg == EndSegment(wrote', last'.ends, i)
             IN WritesClosingTag(seg) => EndsWith(seg, ClosingTag(j))
    ]_vars

\* close() has written `</b>` and then `</a>` for b begun inside a.
WitnessC16 ==
  /\ last.op = "close" /\ last.res = "ok" /\ Len(last.ends) = 2
  /\ EndSegment(wrote, last.ends, 1) = <<">", "<", "/", "b", ">">>
  /\ EndSegment(wrote, last.ends, 2) = <<"<", "/", "a", ">">>
  /\ stack = <<>>

\* C17: in a writer that stays in FullyPretty mode, the end_elem of an element
\* under which a child was appended writes a newline, two spaces for each
\* element that was open when the element was begun, and its closing tag.
ClaimC17 ==
  [][ (very_pretty /\ last'.op \in {"end_elem", "close"} /\ last'.res = "ok") =>
        \A i \in 1 .. Len(last'.ends) :
          LET j == Len(track) - i + 1
          IN track[j].kids =>
               EndSegment(wrote', last'.ends, i)
                 = NL \o Repeat(INDENT, j - 1) \o ClosingTag(j)
    ]_vars

\* The same of every closing tag the writer does write.
LayoutC17 ==
  [][ (very_pretty /\ last'.op \in {"end_elem", "close"} /\ last'.res = "ok") =>
        \A i \in 1 .. Len(last'.ends) :
          LET j == Len(track) - i + 1
              seg == EndSegment(wrote', last'.ends, i)
          IN Occurrences(seg, LT_SLASH) > 0 =>
               seg = NL \o Repeat(INDENT, j - 1) \o ClosingTag(j)
    ]_vars

\* C18: with the namespace setting a prefix p, elem_text(name, text) writes the
\* opening tag `<p:name>`, the escaped text and the closing tag `</p:name>`.
ClaimC18 ==
  (last.op = "elem_text" /\ last.res = "ok") =>
    EndsWith(wrote, LT \o Prefix(namespace) \o last.arg \o GT \o Entities(last.arg2)
                       \o LT_SLASH \o Prefix(namespace) \o last.arg \o GT)

\* What the call `op` with its arguments returns to a writer s.
Apply(op, arg, arg2, s) ==
  CASE op = "dtd" -> dtd(s, arg)
    [] op = "begin_elem" -> begin_elem(s, arg)
    [] op = "end_elem" -> end_elem(s)
    [] op = "elem" -> elem(s, arg)
    [] op = "empty_elem" -> empty_elem(s, arg)
    [] op = "elem_text" -> elem_text(s, arg, arg2)
    [] op = "text" -> text(s, arg)
    [] op = "cdata" -> cdata(s, arg)
    [] op = "comment" -> comment(s, arg)
    [] op = "attr" -> attr(s, arg, arg2)
    [] op = "attr_esc" -> attr_esc(s, arg, arg2)
    [] op = "ns_decl" -> ns_decl(s, arg)
    [] op = "close" -> close(s)
    [] OTHER -> s

\* C19: a call returns the sink's error exactly if a write of it failed, and
\* then the bytes it wrote are the bytes the same call writes to a sink that
\* accepts everything, cut short before the failed write; close() invokes no
\* end_elem after the one that failed, so it pops no element after it.
TheoremC19 ==
  [][ /\ (fails' # fails) <=> (last'.res = "err")
      /\ last'.res = "err" =>
           LET whole == Apply(last'.op, last'.arg, last'.arg2, Start(NoFail))
               k == Len(last'.ends)
           IN /\ Len(wrote') < Len(whole.out)
              /\ wrote' = SubSeq(whole.out, 1, Len(wrote'))
              /\ last'.op = "close" =>
                   /\ k >= 1
                   /\ last'.ends = SubSeq(whole.ends, 1, k)
                   /\ Len(wrote') < (IF k < Len(whole.ends) THEN whole.ends[k + 1]
                                                            ELSE Len(whole.out))
                   /\ Len(stack) - Len(stack') \in {k - 1, k}
                   /\ stack' = SubSeq(stack, 1, Len(stack'))
    ]_vars

\* close() on two open elements failed in its first end_elem, after the `>`:
\* the inner element is popped, the outer one is still open.
WitnessC19 ==
  /\ last.op = "close" /\ last.res = "err" /\ last.depth = 2
  /\ Len(last.ends) = 1 /\ wrote = GT
  /\ Len(stack) = 1 /\ Len(ns_stack) = 1

\* C20: between calls, if the Open-Tag Flag is true then the stack is not empty
\* and its top frame has has_children = false; a call that marks the top frame
\* or pops a frame leaves the flag false.
TheoremC20 ==
  /\ opened => (stack # <<>> /\ ~stack[Len(stack)].children)
  /\ (last.res = "ok" /\ Len(stack) < last.depth) => ~opened

\* text failed at the `>` of the pending start tag: the tag stays open, and the
\* element is not marked.
WitnessC20 ==
  /\ last.op = "text" /\ last.res = "err" /\ last.opened /\ wrote = <<>>
  /\ opened /\ stack # <<>> /\ ~stack[Len(stack)].children

====
